---------------------------- MODULE Spec2Model ----------------------------
(***************************************************************************)
(* Model of the certificate generator of mini-certificado-app:             *)
(* backend/src/services/certificadoGenerator.ts (CertificadoGenerator).    *)
(*                                                                         *)
(* One generateCertificado call is a promise executor that runs to         *)
(* completion (construct the document, register fonts, attach the stream   *)
(* listeners, draw the phases, doc.end()), followed by the document's      *)
(* 'data', 'end' and 'error' events, which the event loop delivers one at  *)
(* a time.  Two calls on the same generator instance are modelled.         *)
(*                                                                         *)
(* Text is a sequence of runs [ch, n]: the piece ch repeated n times.      *)
(* Widths are exact integers: glyph advances are in 1/1000 em, so          *)
(* widthOfString(s) = StrMilli(s, font) * size / 1000 points.              *)
(* Coordinates of drawing operations are in 1/100 point.                   *)
(***************************************************************************)
EXTENDS Integers, Sequences, FiniteSets, TLC

\* ------------------------------------------------------------------ bounds
MidNameLen == 10         \* the sampled nombre / apellido length between min and max
MaxChunks == 2           \* chunks one document emits at most
MaxTicks == 2            \* days the clock advances at most
maxRequests == 2         \* rateLimitMiddleware's limit (the app passes 100)
windowMs == 3            \* rateLimitMiddleware's window (the app passes 15 min)
MaxClock == 7            \* the time up to which requests arrive
MaxHandled == 4          \* requests one client sends at most
MaxRawLen == 5           \* the sampled raw strings have at most this many characters

\* ------------------------------------------------------- program constants
NombreMinLength == 2
NombreMaxLength == 50
TextoMinLength == 10
TextoMaxLength == 500
HorasMax == 720
espacioDisponibleNombre == 200
espacioDisponibleDni == 100
avanceNombre == 3
avanceDni == 2
tamanoFuentePaciente == 14
tamanoFuenteMedica == 12

Calls == {1, 2}

\* --------------------------------------------------------------------- text
Run(ch, n) == [ch |-> ch, n |-> n]

Str(ch) == <<Run(ch, 1)>>

RECURSIVE StrLen(_)
StrLen(s) == IF s = <<>> THEN 0 ELSE Head(s).n + StrLen(Tail(s))

\* a string given letter by letter
Lit(cs) == [i \in 1..Len(cs) |-> Run(cs[i], 1)]

\* the characters of a string, one by one
RECURSIVE Expand(_)
Expand(s) ==
  IF s = <<>> THEN <<>>
  ELSE [i \in 1..Head(s).n |-> Head(s).ch] \o Expand(Tail(s))

LowerLetters ==
  <<"a", "b", "c", "d", "e", "f", "g", "h", "i", "j", "k", "l", "m", "n", "o",
    "p", "q", "r", "s", "t", "u", "v", "w", "x", "y", "z", "á", "é", "í", "ó",
    "ú", "ñ">>

UpperLetters ==
  <<"A", "B", "C", "D", "E", "F", "G", "H", "I", "J", "K", "L", "M", "N", "O",
    "P", "Q", "R", "S", "T", "U", "V", "W", "X", "Y", "Z", "Á", "É", "Í", "Ó",
    "Ú", "Ñ">>

\* the first 26 of each are the ASCII letters
AsciiLower == {LowerLetters[i] : i \in 1..26}

AsciiUpper == {UpperLetters[i] : i \in 1..26}

Digits == {"0", "1", "2", "3", "4", "5", "6", "7", "8", "9"}

DigitText == <<"0", "1", "2", "3", "4", "5", "6", "7", "8", "9">>

\* the class \s, as far as the inputs use it
Whitespace == {" ", "\t", "\n"}

\* the class [a-zA-ZáéíóúÁÉÍÓÚñÑ\s]
NameChars ==
  {LowerLetters[i] : i \in 1..Len(LowerLetters)}
    \cup {UpperLetters[i] : i \in 1..Len(UpperLetters)} \cup Whitespace

\* the class [a-zA-Z0-9]
AsciiAlnum == AsciiLower \cup AsciiUpper \cup Digits

\* String.prototype.toUpperCase, letter by letter
UpperPiece(ch) ==
  IF \E i \in 1..Len(LowerLetters) : LowerLetters[i] = ch
  THEN UpperLetters[CHOOSE i \in 1..Len(LowerLetters) : LowerLetters[i] = ch]
  ELSE ch

toUpperCase(s) == [i \in 1..Len(s) |-> Run(UpperPiece(s[i].ch), s[i].n)]

\* String.prototype.repeat: a negative count is a RangeError
RepeatThrows(n) == n < 0

Repeat(ch, n) == IF n = 0 THEN <<>> ELSE <<Run(ch, n)>>

\* -------------------------------------------------------------------- fonts
CaveatFonts == <<"Caveat-Regular", "Caveat-Medium", "Caveat-Bold">>

CaveatSet == {CaveatFonts[i] : i \in 1..Len(CaveatFonts)}

StandardFonts == {"Helvetica", "Helvetica-Bold", "Helvetica-Oblique"}

\* glyph advance in 1/1000 em: Helvetica from its AFM metrics, the
\* handwriting font narrower (representative values)
Advance(font, ch) ==
  IF font \in CaveatSet
  THEN CASE ch = "I" -> 330
         [] ch = "M" -> 720
         [] ch = "A" -> 560
         [] ch = " " -> 250
         [] ch = "," -> 220
         [] OTHER -> 480
  ELSE CASE ch = "I" -> 278
         [] ch = "M" -> 833
         [] ch = "A" -> 667
         [] ch = " " -> 278
         [] ch = "," -> 278
         [] OTHER -> 556

RECURSIVE StrMilli(_, _)
StrMilli(s, font) ==
  IF s = <<>> THEN 0
  ELSE Head(s).n * Advance(font, Head(s).ch) + StrMilli(Tail(s), font)

\* Math.floor((espacio - doc.widthOfString(s)) / avance), in exact integers
FillerCount(s, font, size, espacio, avance) ==
  (espacio * 1000 - StrMilli(s, font) * size) \div (avance * 1000)

\* ------------------------------------------------------------------- config
defaultConfig ==
  [width |-> 28346, height |-> 53528,
   margins |-> [top |-> 25, bottom |-> 25, left |-> 20, right |-> 20],
   fonts |-> [title |-> "Helvetica-Bold", body |-> "Helvetica",
              signature |-> "Helvetica-Oblique",
              caveat |-> "Caveat-Regular", caveatMedium |-> "Caveat-Medium"]]

\* config overrides a caller may pass to the constructor (none, or a whole
\* fonts record: a built-in body font, a registered one, an unknown one)
fontsWithBody(f) == [defaultConfig.fonts EXCEPT !.body = f]

NoOverride == [k \in {} |-> 0]

Overrides ==
  {NoOverride} \cup
  {[fonts |-> fontsWithBody(f)] : f \in {"Helvetica-Oblique", "Caveat-Regular", "Roboto"}}

\* this.config = { ...defaultConfig, ...config }
constructor(o) ==
  [k \in DOMAIN defaultConfig |-> IF k \in DOMAIN o THEN o[k] ELSE defaultConfig[k]]

\* --------------------------------------------------------------------- data
NoDate == [y |-> 0, m |-> 0, d |-> 0]

StartDate == [y |-> 2024, m |-> 11, d |-> 30]

IssueDate == [y |-> 2024, m |-> 4, d |-> 10]

NameLens == {NombreMinLength, MidNameLen, NombreMaxLength}

TextLens == {TextoMinLength, TextoMaxLength}

\* records that satisfy the validated ranges
ValidData ==
  [nombre : {<<Run("m", n)>> : n \in NameLens},
   apellido : {<<Run("a", n)>> : n \in NameLens},
   dni : {Lit(SubSeq(<<"3", "3", "8", "2", "4", "9", "6", "3">>, 1, n)) : n \in {7, 8}},
   codigoDiagnostico : {Lit(<<"A", "0", "9">>)},
   horasReposo : {24, HorasMax},
   textoEntrada : {<<Run("s", n)>> : n \in TextLens},
   fechaEmision : {NoDate, IssueDate}]

SmallData ==
  {r \in ValidData :
     /\ r.nombre \in {<<Run("m", NombreMinLength)>>, <<Run("m", NombreMaxLength)>>}
     /\ r.apellido = <<Run("a", NombreMinLength)>>
     /\ StrLen(r.dni) = 8
     /\ r.horasReposo = 24
     /\ r.textoEntrada = <<Run("s", TextoMinLength)>>}

NoData ==
  [nombre |-> <<>>, apellido |-> <<>>, dni |-> <<>>,
   codigoDiagnostico |-> <<>>, horasReposo |-> 0, textoEntrada |-> <<>>,
   fechaEmision |-> NoDate]

\* what the file system holds: which font files load, whether registerFont
\* itself reports a bad file (or only the later doc.font), whether the
\* signature image loads
Environments ==
  [fontOk : SUBSET CaveatSet, eager : BOOLEAN, imageOk : BOOLEAN]

PairEnvironments ==
  {e \in Environments : ~e.eager /\ e.fontOk \in {{}, CaveatSet}}

\* ---------------------------------------------------------- string methods
\* String.prototype.trim
RECURSIVE trimStart(_)
trimStart(s) ==
  IF s # <<>> /\ Head(s).ch \in Whitespace THEN trimStart(Tail(s)) ELSE s

RECURSIVE trimEnd(_)
trimEnd(s) ==
  IF s # <<>> /\ s[Len(s)].ch \in Whitespace
  THEN trimEnd(SubSeq(s, 1, Len(s) - 1)) ELSE s

trim(s) == trimEnd(trimStart(s))

\* replace(/\s+/g, ' ')
RECURSIVE collapseWhitespace(_)
collapseWhitespace(s) ==
  IF s = <<>> THEN <<>>
  ELSE IF Head(s).ch \in Whitespace
  THEN <<Run(" ", 1)>> \o collapseWhitespace(trimStart(Tail(s)))
  ELSE <<Head(s)>> \o collapseWhitespace(Tail(s))

\* replace(/[class]/g, '') and replace(/[^class]/g, '')
removeChars(s, class) == SelectSeq(s, LAMBDA r : r.ch \notin class)

keepChars(s, class) == SelectSeq(s, LAMBDA r : r.ch \in class)

\* String.prototype.split(sep), sep one character
RECURSIVE splitFrom(_, _, _)
splitFrom(s, sep, cur) ==
  IF s = <<>> THEN <<cur>>
  ELSE IF Head(s).ch = sep
  THEN <<cur>> \o [i \in 1..(Head(s).n - 1) |-> <<>>] \o splitFrom(Tail(s), sep, <<>>)
  ELSE splitFrom(Tail(s), sep, Append(cur, Head(s)))

split(s, sep) == splitFrom(s, sep, <<>>)

DigitVal(ch) == (CHOOSE i \in 1..Len(DigitText) : DigitText[i] = ch) - 1

\* parseInt of a string of digits
RECURSIVE parseIntDigits(_)
parseIntDigits(cs) ==
  IF cs = <<>> THEN 0
  ELSE parseIntDigits(SubSeq(cs, 1, Len(cs) - 1)) * 10 + DigitVal(cs[Len(cs)])

\* s.match(/(\d+)/): the first maximal group of digits, <<>> when there is none
firstDigits(s) ==
  LET cs == Expand(s)
      at == {i \in 1..Len(cs) : cs[i] \in Digits}
  IN IF at = {} THEN <<>>
     ELSE LET from == CHOOSE i \in at : \A k \in at : i <= k
              to == CHOOSE j \in from..Len(cs) :
                      /\ \A k \in from..j : cs[k] \in Digits
                      /\ (j = Len(cs) \/ cs[j + 1] \notin Digits)
          IN SubSeq(cs, from, to)

\* n written with at least w digits: toString().padStart(w, '0')
padDigits(n, w) ==
  IF w = 4
  THEN Lit(<<DigitText[((n \div 1000) % 10) + 1], DigitText[((n \div 100) % 10) + 1],
             DigitText[((n \div 10) % 10) + 1], DigitText[(n % 10) + 1]>>)
  ELSE Lit(<<DigitText[((n \div 10) % 10) + 1], DigitText[(n % 10) + 1]>>)

\* ---------------------------------------------------------------- validator
\* /^[A-Z][0-9]{lo,hi}(\.[0-9])?$/
matchesCode(cs, lo, hi) ==
  \E k \in lo..hi :
    /\ Len(cs) \in {1 + k, 3 + k}
    /\ cs[1] \in AsciiUpper
    /\ \A i \in 2..(1 + k) : cs[i] \in Digits
    /\ Len(cs) = 3 + k => (cs[2 + k] = "." /\ cs[3 + k] \in Digits)

\* validationRules.dni.pattern: /^[0-9]{7,8}$/
matchesDni(cs) ==
  /\ Len(cs) \in 7..8
  /\ \A i \in 1..Len(cs) : cs[i] \in Digits

\* date a is not after date b
notAfter(a, b) ==
  \/ a.y < b.y
  \/ a.y = b.y /\ a.m < b.m
  \/ a.y = b.y /\ a.m = b.m /\ a.d <= b.d

\* the Joi schema, lines 83-156 (fechaEmision: optional, not in the future)
schemaAccepts(d, today) ==
  /\ StrLen(d.codigoDiagnostico) \in 1..10
  /\ matchesCode(Expand(d.codigoDiagnostico), 2, 3)
  /\ StrLen(d.nombre) \in NombreMinLength..NombreMaxLength
  /\ \A i \in 1..Len(d.nombre) : d.nombre[i].ch \in NameChars
  /\ StrLen(d.apellido) \in NombreMinLength..NombreMaxLength
  /\ \A i \in 1..Len(d.apellido) : d.apellido[i].ch \in NameChars
  /\ matchesDni(Expand(d.dni))
  /\ d.horasReposo \in 1..HorasMax
  /\ StrLen(d.textoEntrada) \in TextoMinLength..TextoMaxLength
  /\ d.fechaEmision # NoDate => notAfter(d.fechaEmision, today)

validateDNI(dni) ==
  LET cs == Expand(dni)
  IN /\ matchesDni(cs)
     /\ \E i \in 1..Len(cs) : cs[i] # "0"
     /\ \E i \in 1..Len(cs) : cs[i] # cs[1]
     /\ cs # SubSeq(<<"1", "2", "3", "4", "5", "6", "7", "8">>, 1, Len(cs))

validateDiagnosticCode(code) == matchesCode(Expand(code), 2, 2)

validateName(name) ==
  /\ name # <<>>
  /\ \A i \in 1..Len(name) : name[i].ch \in NameChars
  /\ StrLen(trim(name)) > 0

validateReposoHours(hours) == ~(hours > 72 /\ hours % 24 # 0)

performAdditionalValidations(d) ==
  /\ validateDNI(d.dni)
  /\ validateDiagnosticCode(d.codigoDiagnostico)
  /\ validateName(d.nombre)
  /\ validateName(d.apellido)
  /\ validateReposoHours(d.horasReposo)

\* validateCertificadoData(...).isValid; the data it returns is its argument
validateCertificadoData(d, today) ==
  schemaAccepts(d, today) /\ performAdditionalValidations(d)

\* the characters sanitizeString removes
Dangerous == {"<", ">", "\"", "'", "&"}

sanitizeString(str) == removeChars(collapseWhitespace(trim(str)), Dangerous)

\* sanitizeData, lines 254-282: a field that is absent or falsy stays absent
\* (<<>>, 0), and fechaEmision is not copied.  Math.floor(Math.abs(x)) of a
\* number held as signed integer part and tenths is the integer part without
\* its sign.
sanitizeData(b) ==
  [nombre |-> sanitizeString(b.nombre),
   apellido |-> sanitizeString(b.apellido),
   dni |-> keepChars(b.dni, Digits),
   codigoDiagnostico |-> trim(toUpperCase(b.codigoDiagnostico)),
   horasReposo |-> IF b.horasReposo < 0 THEN -b.horasReposo ELSE b.horasReposo,
   textoEntrada |-> sanitizeString(b.textoEntrada),
   fechaEmision |-> NoDate]

\* -------------------------------------------------------------------- state
VARIABLES
  config,        \* this.config of the one CertificadoGenerator instance
  env,           \* the font and image files the process finds
  now,           \* the date new Date() returns
  ticks,         \* days passed since the start
  running,       \* the call whose executor is on the stack, 0: event loop
  pc,            \* per call: position in generateCertificado
  data,          \* per call: the CertificadoData argument
  registered,    \* per call: fonts registered in its document
  docFont,       \* per call: the document's current font
  ops,           \* per call: drawing operations issued on its document
  trace,         \* per call: phases entered, in order
  docEnded,      \* per call: doc.end() was called
  docOut,        \* per call: chunks the document emitted, in order
  emittedEnd,    \* per call: the document emitted 'end'
  emittedError,  \* per call: the document emitted 'error'
  chunks,        \* per call: the chunks array of the 'data' listener
  promise,       \* per call: the returned promise
  firstSettle,   \* per call: what first asked to settle the promise
  calledOn,      \* per call: the date on which its executor ran
  captionEnabled,\* the build's drawWatermark draws its caption
  route,         \* per request: the route it was posted to
  body,          \* per request: req.body
  hpc,           \* per request: position in the controller's handler
  validation,    \* per request: what validateCertificadoData returned
  res,           \* per request: the response
  requests,      \* rateLimitMiddleware: the requests map of the closure
  clock,         \* rateLimitMiddleware: Date.now()
  admitted,      \* rateLimitMiddleware: per client, when next() was called
  denied         \* rateLimitMiddleware: per client, when 429 was answered

httpVars == <<route, body, hpc, validation, res>>

limitVars == <<requests, clock, admitted, denied>>

generatorVars ==
  <<config, env, now, ticks, running, pc, data, registered, docFont, ops,
    trace, docEnded, docOut, emittedEnd, emittedError, chunks, promise,
    firstSettle, calledOn, captionEnabled>>

\* what no step of the generator touches
outerVars == <<captionEnabled, route, body, hpc, validation, res,
               requests, clock, admitted, denied>>

vars ==
  <<config, env, now, ticks, running, pc, data, registered, docFont, ops,
    trace, docEnded, docOut, emittedEnd, emittedError, chunks, promise,
    firstSettle, calledOn, captionEnabled, route, body, hpc, validation, res,
    requests, clock, admitted, denied>>

docVars == <<registered, docFont, ops, trace, docEnded>>

streamVars == <<docOut, emittedEnd, emittedError, chunks, promise, firstSettle>>

Pending == [state |-> "pending", value |-> <<>>, error |-> "none"]

\* a resolve that overwrites a promise already settled
resolveOverwrites(p, v) == [state |-> "resolved", value |-> v, error |-> "none"]

\* resolve / reject of a promise: only the first one settles it
resolve(p, v) ==
  IF p.state = "pending"
  THEN [state |-> "resolved", value |-> v, error |-> "none"]
  ELSE p

\* a catch block and an 'error' listener that swallow the error
rejectSwallowed(p, e) == p

reject(p, e) ==
  IF p.state = "pending"
  THEN [state |-> "rejected", value |-> <<>>, error |-> e]
  ELSE p

noteSettle(f, what) == IF f = "none" THEN what ELSE f

\* Buffer.concat
RECURSIVE BufferConcat(_)
BufferConcat(list) ==
  IF list = <<>> THEN <<>> ELSE Head(list) \o BufferConcat(Tail(list))

\* no request is being handled.  A JSON number is held as its signed integer
\* part (horasReposo) and the tenths after the point (horasTenths);
\* mensajeTypeof is typeof body.mensaje.
NoBody ==
  [nombre |-> <<>>, apellido |-> <<>>, dni |-> <<>>,
   codigoDiagnostico |-> <<>>, horasReposo |-> 0, horasTenths |-> 0,
   textoEntrada |-> <<>>, fechaEmision |-> NoDate,
   mensaje |-> <<>>, mensajeTypeof |-> "undefined"]

NoResponse ==
  [status |-> 0, contentType |-> "", disposition |-> "", filename |-> <<>>,
   sent |-> "none", payload |-> <<>>, error |-> "none", sentOn |-> NoDate]

Clients == {"ip1", "ip2"}

NoEntry == [present |-> FALSE, count |-> 0, resetTime |-> 0]

InitNoHttp ==
  /\ route = [c \in Calls |-> "none"]
  /\ body = [c \in Calls |-> NoBody]
  /\ hpc = [c \in Calls |-> "none"]
  /\ validation = [c \in Calls |-> "none"]
  /\ res = [c \in Calls |-> NoResponse]

InitNoLimiter ==
  /\ requests = [k \in Clients |-> NoEntry]
  /\ clock = 0
  /\ admitted = [k \in Clients |-> <<>>]
  /\ denied = [k \in Clients |-> <<>>]

InitDocs ==
  /\ now = StartDate
  /\ calledOn = [c \in Calls |-> NoDate]
  /\ ticks = 0
  /\ running = 0
  /\ registered = [c \in Calls |-> {}]
  /\ docFont = [c \in Calls |-> "Helvetica"]
  /\ ops = [c \in Calls |-> <<>>]
  /\ trace = [c \in Calls |-> <<>>]
  /\ docEnded = [c \in Calls |-> FALSE]
  /\ docOut = [c \in Calls |-> <<>>]
  /\ emittedEnd = [c \in Calls |-> FALSE]
  /\ emittedError = [c \in Calls |-> FALSE]
  /\ chunks = [c \in Calls |-> <<>>]
  /\ promise = [c \in Calls |-> Pending]
  /\ firstSettle = [c \in Calls |-> "none"]

\* the generator the controller constructs, called directly
InitCommon ==
  /\ config = defaultConfig
  /\ captionEnabled = FALSE
  /\ InitDocs
  /\ InitNoHttp
  /\ InitNoLimiter

\* one call, any valid record
Init ==
  /\ InitCommon
  /\ env \in Environments
  /\ pc = [c \in Calls |-> IF c = 1 THEN "idle" ELSE "unused"]
  /\ \E d \in ValidData : data = [c \in Calls |-> IF c = 1 THEN d ELSE NoData]

\* one call on a generator built with any of the overrides, in a build with
\* either variant of drawWatermark
InitBuild ==
  /\ config \in {constructor(o) : o \in Overrides}
  /\ captionEnabled \in BOOLEAN
  /\ InitDocs
  /\ InitNoHttp
  /\ InitNoLimiter
  /\ env \in Environments
  /\ pc = [c \in Calls |-> IF c = 1 THEN "idle" ELSE "unused"]
  /\ \E d \in SmallData : data = [c \in Calls |-> IF c = 1 THEN d ELSE NoData]

\* one call, followed to the end of its stream
InitLive ==
  /\ InitCommon
  /\ env \in PairEnvironments
  /\ pc = [c \in Calls |-> IF c = 1 THEN "idle" ELSE "unused"]
  /\ \E d \in SmallData : data = [c \in Calls |-> IF c = 1 THEN d ELSE NoData]

\* two calls on the same instance
InitPair ==
  /\ InitCommon
  /\ env \in PairEnvironments
  /\ pc = [c \in Calls |-> "idle"]
  /\ data \in [Calls -> SmallData]

\* ------------------------------------------------------------------- clock
DaysInMonth(m, y) ==
  IF m = 1
  THEN (IF y % 4 = 0 /\ (y % 100 # 0 \/ y % 400 = 0) THEN 29 ELSE 28)
  ELSE IF m \in {3, 5, 8, 10} THEN 30 ELSE 31

NextDay(t) ==
  IF t.d < DaysInMonth(t.m, t.y) THEN [t EXCEPT !.d = t.d + 1]
  ELSE IF t.m < 11 THEN [t EXCEPT !.d = 1, !.m = t.m + 1]
  ELSE [y |-> t.y + 1, m |-> 0, d |-> 1]

\* A day passes.  The clock is read only inside an executor, so days that
\* pass once every call has started are not explored.
Tick ==
  /\ running = 0
  /\ ticks < MaxTicks
  /\ \E c \in Calls : pc[c] = "idle"
  /\ now' = NextDay(now)
  /\ ticks' = ticks + 1
  /\ UNCHANGED outerVars
  /\ UNCHANGED <<config, env, running, pc, data, calledOn>>
  /\ UNCHANGED docVars
  /\ UNCHANGED streamVars

\* ------------------------------------------------------ drawing operations
P(n) == n * 100

TextOp(phase, font, size, str, x, y) ==
  [phase |-> phase, kind |-> "text", font |-> font, size |-> size,
   str |-> str, x |-> P(x), y |-> P(y), w |-> 0, h |-> 0]

GfxOp(phase, kind, x, y, w, h) ==
  [phase |-> phase, kind |-> kind, font |-> "", size |-> 0,
   str |-> <<>>, x |-> x, y |-> y, w |-> w, h |-> h]

\* doc.registerFont of the three fonts inside one try block: the first
\* registration that throws skips the ones after it
RECURSIVE RegisterFrom(_, _)
RegisterFrom(i, e) ==
  IF i > Len(CaveatFonts) THEN {}
  ELSE IF e.eager /\ CaveatFonts[i] \notin e.fontOk THEN {}
  ELSE {CaveatFonts[i]} \cup RegisterFrom(i + 1, e)

\* doc.font(f) succeeds: a standard font, or a registered font whose file loads
fontUsable(reg, e, f) ==
  f \in StandardFonts \/ (f \in reg /\ f \in e.fontOk)

\* try { doc.font('Caveat-Medium') } catch { doc.font(this.config.fonts.body) }
valueFont(reg, e, cfg) ==
  IF fontUsable(reg, e, "Caveat-Medium") THEN "Caveat-Medium" ELSE cfg.fonts.body

\* ----------------------------------------------------------------- executor
\* generateCertificado up to new PDFDocument (the executor starts)
GenerateCertificado(c) ==
  /\ running = 0
  /\ pc[c] = "idle"
  /\ running' = c
  /\ pc' = [pc EXCEPT ![c] = "registerFonts"]
  /\ calledOn' = [calledOn EXCEPT ![c] = now]
  /\ UNCHANGED outerVars
  /\ UNCHANGED <<config, env, now, ticks, data>>
  /\ UNCHANGED docVars
  /\ UNCHANGED streamVars

RegisterFonts(c) ==
  /\ running = c
  /\ pc[c] = "registerFonts"
  /\ registered' = [registered EXCEPT ![c] = RegisterFrom(1, env)]
  /\ pc' = [pc EXCEPT ![c] = "drawBackgroundImage"]
  /\ UNCHANGED outerVars
  /\ UNCHANGED <<config, env, now, ticks, running, data, calledOn>>
  /\ UNCHANGED <<docFont, ops, trace, docEnded>>
  /\ UNCHANGED streamVars

backgroundOps(cfg) ==
  << GfxOp("background", "rect", 0, 0, cfg.width, cfg.height),
     GfxOp("background", "rect", 0, 0, P(2), cfg.height),
     GfxOp("background", "rect", cfg.width - P(1), 0, P(1), cfg.height),
     GfxOp("background", "rect", 0, 0, cfg.width, P(1)),
     GfxOp("background", "rect", 0, cfg.height - P(1), cfg.width, P(1)),
     GfxOp("background", "line", 0, P(70), cfg.width, P(70)),
     GfxOp("background", "line", 0, P(410), cfg.width, P(410)) >>

DrawBackgroundImage(c) ==
  /\ running = c
  /\ pc[c] = "drawBackgroundImage"
  /\ ops' = [ops EXCEPT ![c] = @ \o backgroundOps(config)]
  /\ trace' = [trace EXCEPT ![c] = Append(@, "background")]
  /\ pc' = [pc EXCEPT ![c] = "drawHeader"]
  /\ UNCHANGED outerVars
  /\ UNCHANGED <<config, env, now, ticks, running, data, calledOn>>
  /\ UNCHANGED <<registered, docFont, docEnded>>
  /\ UNCHANGED streamVars

headerOps(cfg) ==
  << TextOp("header", cfg.fonts.title, 12, Str("Dra. Kardasz Ivana Noelia"), 10, 25),
     TextOp("header", cfg.fonts.body, 10, Str("ESPECIALISTA CLINICA GENERAL"), 10, 40),
     TextOp("header", cfg.fonts.body, 10, Str("M.P. 7532"), 10, 50),
     TextOp("header", cfg.fonts.body, 10, Str("Rp /"), 10, 90) >>

\* doc.font(title) or doc.font(body) throws: the font is neither built in
\* nor a registered font whose file loads
headerThrows(reg, e, cfg) ==
  ~fontUsable(reg, e, cfg.fonts.title) \/ ~fontUsable(reg, e, cfg.fonts.body)

\* the runs drawHeader issues before it returns or throws
headerOpsDrawn(reg, e, cfg) ==
  IF ~fontUsable(reg, e, cfg.fonts.title) THEN <<>>
  ELSE IF ~fontUsable(reg, e, cfg.fonts.body) THEN SubSeq(headerOps(cfg), 1, 1)
  ELSE headerOps(cfg)

\* drawHeader, lines 172-202; a throw of doc.font leaves through the
\* executor's catch block, which rejects the promise
DrawHeader(c) ==
  /\ running = c
  /\ pc[c] = "drawHeader"
  /\ ops' = [ops EXCEPT ![c] = @ \o headerOpsDrawn(registered[c], env, config)]
  /\ trace' = [trace EXCEPT ![c] = Append(@, "header")]
  /\ IF headerThrows(registered[c], env, config)
     THEN /\ pc' = [pc EXCEPT ![c] = "caught"]
          /\ docFont' = [docFont EXCEPT ![c] =
                IF fontUsable(registered[c], env, config.fonts.title)
                THEN config.fonts.title ELSE @]
          /\ promise' = [promise EXCEPT ![c] = reject(@, "FontError")]
          /\ firstSettle' = [firstSettle EXCEPT ![c] = noteSettle(@, "throw")]
          /\ running' = 0
     ELSE /\ pc' = [pc EXCEPT ![c] = "drawPatientInfo"]
          /\ docFont' = [docFont EXCEPT ![c] = config.fonts.body]
          /\ UNCHANGED <<promise, firstSettle, running>>
  /\ UNCHANGED outerVars
  /\ UNCHANGED <<config, env, now, ticks, data, calledOn>>
  /\ UNCHANGED <<registered, docEnded>>
  /\ UNCHANGED <<docOut, emittedEnd, emittedError, chunks>>

nombreCompleto(d) == toUpperCase(d.nombre) \o Str(" ") \o toUpperCase(d.apellido)

dniTexto(d) == d.dni \o Str(",")

\* data.textoEntrada || 'síndrome gripal'
descripcion(d) ==
  IF StrLen(d.textoEntrada) = 0 THEN Str("síndrome gripal") ELSE d.textoEntrada

puntosNombreCount(d, font) ==
  FillerCount(nombreCompleto(d), font, tamanoFuentePaciente,
              espacioDisponibleNombre, avanceNombre)

puntosDniCount(d, font) ==
  FillerCount(dniTexto(d), font, tamanoFuentePaciente,
              espacioDisponibleDni, avanceDni)

\* drawPatientInfo up to the name value: the runs issued before the first
\* '.'.repeat
patientOpsNombre(d, vf, cfg) ==
  << TextOp("patient", cfg.fonts.body, tamanoFuentePaciente,
            Str("Dejo constancia que el/la"), 25, 120),
     TextOp("patient", cfg.fonts.body, tamanoFuentePaciente, Str("Sr/a "), 25, 150),
     TextOp("patient", vf, 14, nombreCompleto(d), 25, 145) >>

\* the name's filler line, the DNI label and value
patientOpsDni(d, vf, cfg) ==
  << TextOp("patient", vf, 14, Repeat(".", puntosNombreCount(d, vf)), 50, 154),
     TextOp("patient", cfg.fonts.body, tamanoFuentePaciente, Str("DNI: "), 25, 180),
     TextOp("patient", vf, 14, dniTexto(d), 25, 175) >>

\* the DNI's filler line and the two lines after it
patientOpsTexto(d, vf, cfg) ==
  << TextOp("patient", vf, 14, Repeat(".", puntosDniCount(d, vf)), 50, 184),
     TextOp("patient", cfg.fonts.body, tamanoFuentePaciente,
            Str("consulta el día de la fecha"), 25, 210),
     TextOp("patient", cfg.fonts.body, tamanoFuentePaciente,
            Str("por presentar "), 25, 240),
     TextOp("patient", vf, 14, descripcion(d) \o Str(","), 25, 236) >>

\* the runs drawPatientInfo issues before it returns or throws
patientOps(d, vf, cfg) ==
  IF RepeatThrows(puntosNombreCount(d, vf))
  THEN patientOpsNombre(d, vf, cfg)
  ELSE IF RepeatThrows(puntosDniCount(d, vf))
  THEN patientOpsNombre(d, vf, cfg) \o patientOpsDni(d, vf, cfg)
  ELSE patientOpsNombre(d, vf, cfg) \o patientOpsDni(d, vf, cfg)
         \o patientOpsTexto(d, vf, cfg)

patientThrows(d, vf) ==
  RepeatThrows(puntosNombreCount(d, vf)) \/ RepeatThrows(puntosDniCount(d, vf))

\* drawPatientInfo, lines 204-359; a RangeError of repeat leaves through the
\* executor's catch block, which rejects the promise
DrawPatientInfo(c) ==
  /\ running = c
  /\ pc[c] = "drawPatientInfo"
  /\ LET vf == valueFont(registered[c], env, config)
     IN /\ ops' = [ops EXCEPT ![c] = @ \o patientOps(data[c], vf, config)]
        /\ docFont' = [docFont EXCEPT ![c] = vf]
        /\ trace' = [trace EXCEPT ![c] = Append(@, "patient")]
        /\ IF patientThrows(data[c], vf)
           THEN /\ pc' = [pc EXCEPT ![c] = "caught"]
                /\ promise' = [promise EXCEPT ![c] = reject(@, "RangeError")]
                /\ firstSettle' = [firstSettle EXCEPT ![c] = noteSettle(@, "throw")]
                /\ running' = 0
           ELSE /\ pc' = [pc EXCEPT ![c] = "drawMedicalInfo"]
                /\ UNCHANGED <<promise, firstSettle, running>>
  /\ UNCHANGED outerVars
  /\ UNCHANGED <<config, env, now, ticks, data, calledOn>>
  /\ UNCHANGED <<registered, docEnded>>
  /\ UNCHANGED <<docOut, emittedEnd, emittedError, chunks>>

medicalOps(d, vf, cfg) ==
  << TextOp("medical", cfg.fonts.body, tamanoFuenteMedica,
            Str("se sugiere reposo por "), 25, 270),
     TextOp("medical", vf, 12, Str(ToString(d.horasReposo) \o "hs."), 25, 267),
     TextOp("medical", cfg.fonts.body, tamanoFuenteMedica,
            Str("Diagnóstico: "), 25, 300),
     TextOp("medical", vf, 12, d.codigoDiagnostico, 25, 296) >>

\* the medical lines of drawPatientInfo, lines 361-394
DrawMedicalInfo(c) ==
  /\ running = c
  /\ pc[c] = "drawMedicalInfo"
  /\ LET vf == valueFont(registered[c], env, config)
     IN /\ ops' = [ops EXCEPT ![c] = @ \o medicalOps(data[c], vf, config)]
        /\ docFont' = [docFont EXCEPT ![c] = vf]
  /\ trace' = [trace EXCEPT ![c] = Append(@, "medical")]
  /\ pc' = [pc EXCEPT ![c] = "drawDigitalSignature"]
  /\ UNCHANGED outerVars
  /\ UNCHANGED <<config, env, now, ticks, running, data, calledOn>>
  /\ UNCHANGED <<registered, docEnded>>
  /\ UNCHANGED streamVars

\* the text lines drawn when doc.image throws; no font is selected, so the
\* document's current font is used
signatureFallbackOps(font, x, y) ==
  << TextOp("signature", font, 8, Str("Kardasz Ivana Noelia"), x, y),
     TextOp("signature", font, 7, Str("Especialista"), x, y + 10),
     TextOp("signature", font, 6, Str("Medicina General y Familiar"), x, y + 20),
     TextOp("signature", font, 7, Str("M.P. 7532"), x, y + 30) >>

signatureOps(e, font, x, y) ==
  IF e.imageOk
  THEN << GfxOp("signature", "image", P(160), P(300), P(120), P(80)) >>
  ELSE signatureFallbackOps(font, x, y)

\* a signature phase after which the footer call is left out
DrawDigitalSignatureThenWatermark(c) ==
  /\ running = c
  /\ pc[c] = "drawDigitalSignature"
  /\ ops' = [ops EXCEPT ![c] = @ \o signatureOps(env, docFont[c], 160, 360)]
  /\ trace' = [trace EXCEPT ![c] = Append(@, "signature")]
  /\ pc' = [pc EXCEPT ![c] = "drawWatermark"]
  /\ UNCHANGED outerVars
  /\ UNCHANGED <<config, env, now, ticks, running, data, calledOn>>
  /\ UNCHANGED <<registered, docFont, docEnded>>
  /\ UNCHANGED streamVars

\* this.drawDigitalSignature(doc, firmaX, firmaY), lines 396-397 and 459-500
DrawDigitalSignature(c) ==
  /\ running = c
  /\ pc[c] = "drawDigitalSignature"
  /\ ops' = [ops EXCEPT ![c] = @ \o signatureOps(env, docFont[c], 160, 360)]
  /\ trace' = [trace EXCEPT ![c] = Append(@, "signature")]
  /\ pc' = [pc EXCEPT ![c] = "drawFooter"]
  /\ UNCHANGED outerVars
  /\ UNCHANGED <<config, env, now, ticks, running, data, calledOn>>
  /\ UNCHANGED <<registered, docFont, docEnded>>
  /\ UNCHANGED streamVars

\* a number printed without padding
toStringUnpadded(n) == ToString(n)

\* n.toString().padStart(2, '0')
padStart2(n) == IF n < 10 THEN "0" \o ToString(n) ELSE ToString(n)

\* a footer that always prints the date of the call
fechaStrOfToday(d, today) ==
  padStart2(today.d) \o "/" \o padStart2(today.m + 1) \o "/" \o ToString(today.y)

\* lines 417-421: data.fechaEmision || new Date(), formatted day/month/year
fechaStr(d, today) ==
  LET fecha == IF d.fechaEmision # NoDate THEN d.fechaEmision ELSE today
  IN padStart2(fecha.d) \o "/" \o padStart2(fecha.m + 1) \o "/" \o ToString(fecha.y)

footerOps(d, today, vf, cfg) ==
  << TextOp("footer", vf, 14, Str(fechaStr(d, today)), 25, 380),
     TextOp("footer", cfg.fonts.body, 8, Str("Escaneado con CamScanner"), 10, 430) >>

DrawFooter(c) ==
  /\ running = c
  /\ pc[c] = "drawFooter"
  /\ LET vf == valueFont(registered[c], env, config)
     IN ops' = [ops EXCEPT ![c] = @ \o footerOps(data[c], now, vf, config)]
  /\ docFont' = [docFont EXCEPT ![c] = config.fonts.body]
  /\ trace' = [trace EXCEPT ![c] = Append(@, "footer")]
  /\ pc' = [pc EXCEPT ![c] = "drawWatermark"]
  /\ UNCHANGED outerVars
  /\ UNCHANGED <<config, env, now, ticks, running, data, calledOn>>
  /\ UNCHANGED <<registered, docEnded>>
  /\ UNCHANGED streamVars

\* a watermark phase that saves the graphics state and never restores it
watermarkOpsUnbalanced(cfg, caption) ==
  << GfxOp("watermark", "save", 0, 0, 0, 0) >>

\* drawWatermark: doc.save() ... doc.restore(); in the variant that draws the
\* caption: opacity(0.1) (in percent), font(body), rotate(-45) about the page
\* centre and the caption at (width / 2 - 200, height / 2)
watermarkOps(cfg, caption) ==
  IF caption
  THEN << GfxOp("watermark", "save", 0, 0, 0, 0),
          GfxOp("watermark", "opacity", 10, 0, 0, 0),
          GfxOp("watermark", "rotate", -45, 0, cfg.width \div 2, cfg.height \div 2),
          [TextOp("watermark", cfg.fonts.body, 48, Str("Escaneado con CamScanner"), 0, 0)
             EXCEPT !.x = (cfg.width \div 2) - P(200), !.y = cfg.height \div 2],
          GfxOp("watermark", "restore", 0, 0, 0, 0) >>
  ELSE << GfxOp("watermark", "save", 0, 0, 0, 0),
          GfxOp("watermark", "restore", 0, 0, 0, 0) >>

DrawWatermark(c) ==
  /\ running = c
  /\ pc[c] = "drawWatermark"
  /\ ops' = [ops EXCEPT ![c] = @ \o watermarkOps(config, captionEnabled)]
  /\ docFont' = [docFont EXCEPT ![c] = IF captionEnabled THEN config.fonts.body ELSE @]
  /\ trace' = [trace EXCEPT ![c] = Append(@, "watermark")]
  /\ pc' = [pc EXCEPT ![c] = "docEnd"]
  /\ UNCHANGED outerVars
  /\ UNCHANGED <<config, env, now, ticks, running, data, calledOn>>
  /\ UNCHANGED <<registered, docEnded>>
  /\ UNCHANGED streamVars

\* doc.end(), line 99; the executor returns
DocEnd(c) ==
  /\ running = c
  /\ pc[c] = "docEnd"
  /\ docEnded' = [docEnded EXCEPT ![c] = TRUE]
  /\ trace' = [trace EXCEPT ![c] = Append(@, "finalize")]
  /\ pc' = [pc EXCEPT ![c] = "awaiting"]
  /\ running' = 0
  /\ UNCHANGED outerVars
  /\ UNCHANGED <<config, env, now, ticks, data, calledOn>>
  /\ UNCHANGED <<registered, docFont, ops>>
  /\ UNCHANGED streamVars

\* ------------------------------------------------------------ stream events
Chunk(c, i) == << [doc |-> c, seq |-> i] >>

\* doc.on('data', chunk => chunks.push(chunk))
onData(list, chunk) == Append(list, chunk)

\* one chunks array kept on the generator instance, shared by every call
chunksOfInstance(c) == 1

\* the chunks array the 'data' listener of call c closes over
chunksOf(c) == c

listening(c) == running = 0 /\ pc[c] \in {"awaiting", "caught"}

\* the document of call c emits its next chunk
OnData(c) ==
  /\ listening(c)
  /\ ~emittedEnd[c]
  /\ Len(docOut[c]) < MaxChunks
  /\ LET chunk == Chunk(c, Len(docOut[c]) + 1)
     IN /\ docOut' = [docOut EXCEPT ![c] = Append(@, chunk)]
        /\ chunks' = [chunks EXCEPT ![chunksOf(c)] = onData(@, chunk)]
  /\ UNCHANGED outerVars
  /\ UNCHANGED <<config, env, now, ticks, running, pc, data, calledOn>>
  /\ UNCHANGED docVars
  /\ UNCHANGED <<emittedEnd, emittedError, promise, firstSettle>>

\* doc.on('end', () => resolve(Buffer.concat(chunks))); the stream ends only
\* after doc.end(), and the engine has written at least the file header
OnEnd(c) ==
  /\ listening(c)
  /\ docEnded[c]
  /\ ~emittedEnd[c]
  /\ Len(docOut[c]) >= 1
  /\ emittedEnd' = [emittedEnd EXCEPT ![c] = TRUE]
  /\ promise' = [promise EXCEPT ![c] = resolve(@, BufferConcat(chunks[chunksOf(c)]))]
  /\ firstSettle' = [firstSettle EXCEPT ![c] = noteSettle(@, "end")]
  /\ UNCHANGED outerVars
  /\ UNCHANGED <<config, env, now, ticks, running, pc, data, calledOn>>
  /\ UNCHANGED docVars
  /\ UNCHANGED <<docOut, emittedError, chunks>>

\* doc.on('error', error => reject(error))
OnError(c) ==
  /\ listening(c)
  /\ ~emittedError[c]
  /\ emittedError' = [emittedError EXCEPT ![c] = TRUE]
  /\ promise' = [promise EXCEPT ![c] = reject(@, "StreamError")]
  /\ firstSettle' = [firstSettle EXCEPT ![c] = noteSettle(@, "error")]
  /\ UNCHANGED outerVars
  /\ UNCHANGED <<config, env, now, ticks, running, pc, data, calledOn>>
  /\ UNCHANGED docVars
  /\ UNCHANGED <<docOut, emittedEnd, chunks>>

\* ------------------------------------------------------------ specification
Next ==
  \/ Tick
  \/ \E c \in Calls : GenerateCertificado(c)
  \/ \E c \in Calls : RegisterFonts(c)
  \/ \E c \in Calls : DrawBackgroundImage(c)
  \/ \E c \in Calls : DrawHeader(c)
  \/ \E c \in Calls : DrawPatientInfo(c)
  \/ \E c \in Calls : DrawMedicalInfo(c)
  \/ \E c \in Calls : DrawDigitalSignature(c)
  \/ \E c \in Calls : DrawFooter(c)
  \/ \E c \in Calls : DrawWatermark(c)
  \/ \E c \in Calls : DocEnd(c)
  \/ \E c \in Calls : OnData(c)
  \/ \E c \in Calls : OnEnd(c)
  \/ \E c \in Calls : OnError(c)

Spec == Init /\ [][Next]_vars

SpecPair == InitPair /\ [][Next]_vars

SpecBuild == InitBuild /\ [][Next]_vars

\* the executor is synchronous code: once started it runs to its end
ExecutorStep(c) ==
  \/ RegisterFonts(c)
  \/ DrawBackgroundImage(c)
  \/ DrawHeader(c)
  \/ DrawPatientInfo(c)
  \/ DrawMedicalInfo(c)
  \/ DrawDigitalSignature(c)
  \/ DrawFooter(c)
  \/ DrawWatermark(c)
  \/ DocEnd(c)

\* after doc.end() the engine flushes its chunks and emits 'end'
EngineFinishes(c) == docEnded[c] /\ (OnData(c) \/ OnEnd(c))

SpecLive ==
  /\ InitLive
  /\ [][Next]_vars
  /\ \A c \in Calls : WF_vars(ExecutorStep(c)) /\ WF_vars(EngineFinishes(c))

\* --------------------------------------------------------------- controller
JsonBody(nombre, apellido, dni, codigo, horas, texto) ==
  [nombre |-> nombre, apellido |-> apellido, dni |-> dni,
   codigoDiagnostico |-> codigo, horasReposo |-> horas, horasTenths |-> 0,
   textoEntrada |-> texto, fechaEmision |-> NoDate,
   mensaje |-> <<>>, mensajeTypeof |-> "undefined"]

TelegramBody(mensaje) ==
  [NoBody EXCEPT !.mensaje = mensaje, !.mensajeTypeof = "string"]

textoGripal == Lit(<<"s", "i", "n", "d", "r", "o", "m", "e", " ", "g", "r", "i", "p", "a",
    "l">>)

\* bodies posted to /generate: a valid one; the same name with another DNI,
\* written with dots, blanks and a '<'; hours that are no multiple of 24;
\* a valid name too wide for its line; a valid one that carries an issue date
GenerateBodies ==
  { JsonBody(Lit(<<"J", "o", "r", "g", "e">>), Lit(<<"J", "a", "r", "a">>),
             Lit(<<"3", "3", "8", "2", "4", "9", "6", "3">>),
             Lit(<<"a", "0", "9">>), 24, textoGripal),
    JsonBody(Lit(<<" ", " ", "J", "o", "r", "<", "g", "e", " ">>),
             Lit(<<"J", "a", "r", "a">>),
             Lit(<<"3", "3", ".", "8", "2", "4", ".", "9", "6", "4">>),
             Lit(<<"A", "0", "9">>), 48, textoGripal),
    JsonBody(Lit(<<"J", "o", "r", "g", "e">>), Lit(<<"J", "a", "r", "a">>),
             Lit(<<"3", "3", "8", "2", "4", "9", "6", "3">>),
             Lit(<<"A", "0", "9">>), 100, textoGripal),
    JsonBody(<<Run("m", NombreMaxLength)>>, Lit(<<"J", "a", "r", "a">>),
             Lit(<<"3", "3", "8", "2", "4", "9", "6", "3">>),
             Lit(<<"A", "0", "9">>), 24, textoGripal),
    [JsonBody(Lit(<<"J", "o", "r", "g", "e">>), Lit(<<"J", "a", "r", "a">>),
              Lit(<<"3", "3", "8", "2", "4", "9", "6", "3">>),
              Lit(<<"A", "0", "9">>), 72, textoGripal)
       EXCEPT !.fechaEmision = IssueDate] }

\* messages posted to /telegram: the documented example; one whose fields
\* are out of every validated range; too few fields; an empty string; a name
\* too wide; a mensaje that is the number 7; no mensaje
TelegramBodies ==
  { TelegramBody(Lit(<<"3", "3", "8", "2", "4", "9", "6", "3", ",", "J", "A",
                   "R", "A", ",", "J", "O", "R", "G", "E", ",", "2", "4",
                   "H", "S", ".", ",", "S", "i", "n", "d", "r", "o", "m",
                   "e", ",", "g", "r", "i", "p", "a", "l", ",", "B", "3",
                   "4", "9">>)),
    TelegramBody(Lit(<<"1", ",", "J", "\"", "/", "A", ",", "X", ",", "H",
                   "S", ".", ",", "a", ",", "b", ",", "Z">>)),
    TelegramBody(Lit(<<"3", "3", "8", "2", "4", "9", "6", "3", ",", "J", "A",
                   "R", "A">>)),
    TelegramBody(<<>>),
    TelegramBody(Lit(<<"3", "3", "8", "2", "4", "9", "6", "3", ",", "J", "A",
                   "R", "A", ",">>)
                   \o <<Run("M", NombreMaxLength)>> \o
                 Lit(<<",", "2", "4", "H", "S", ".", ",", "S", "i", "n", "d",
                   "r", "o", "m", "e", ",", "g", "r", "i", "p", "a", "l",
                   ",", "A", "0", "9">>)),
    [NoBody EXCEPT !.mensaje = Lit(<<"7">>), !.mensajeTypeof = "number"],
    NoBody }

Requests ==
  {[route |-> "generate", body |-> b] : b \in GenerateBodies}
    \cup {[route |-> "telegram", body |-> b] : b \in TelegramBodies}

\* the requests the second client sends
SecondRequests ==
  {r \in Requests :
     \/ r.route = "generate" /\ r.body.horasReposo = 48
     \/ r.route = "telegram" /\ StrLen(r.body.mensaje) = 46}

\* the deployed files: every font and the signature image load
HttpEnvironments ==
  {e \in Environments : ~e.eager /\ e.imageOk /\ e.fontOk = CaveatSet}

\* a handler that answers every error with status 500
errorHandlerWithoutStatus(error) ==
  [status |-> 500,
   contentType |-> "application/json", disposition |-> "", filename |-> <<>>,
   sent |-> "json", payload |-> <<>>, error |-> error, sentOn |-> NoDate]

\* errorHandler, lines 56-110: the status of an AppError, a JSON body
errorHandler(error) ==
  [status |-> IF error = "ValidationError" THEN 400 ELSE 500,
   contentType |-> "application/json", disposition |-> "", filename |-> <<>>,
   sent |-> "json", payload |-> <<>>, error |-> error, sentOn |-> NoDate]

\* a file name that keeps every character of the name
keepAll(str) == str

\* str.replace(/[^a-zA-Z0-9]/g, '')
limpio(str) == keepChars(str, AsciiAlnum)

\* new Date().toISOString().split('T')[0]
isoDate(t) ==
  padDigits(t.y, 4) \o Lit(<<"-">>) \o padDigits(t.m + 1, 2) \o Lit(<<"-">>)
    \o padDigits(t.d, 2)

\* `certificado_${nombreLimpio}_${apellidoLimpio}_${fechaStr}.pdf`
filenameOf(nombre, apellido, t) ==
  Lit(<<"c", "e", "r", "t", "i", "f", "i", "c", "a", "d", "o", "_">>)
    \o limpio(nombre) \o Lit(<<"_">>) \o limpio(apellido) \o Lit(<<"_">>)
    \o isoDate(t) \o Lit(<<".", "p", "d", "f">>)

\* the headers and res.send(pdfBuffer)
pdfResponse(disposition, nombre, apellido, buffer, t) ==
  [status |-> 200, contentType |-> "application/pdf",
   disposition |-> disposition, filename |-> filenameOf(nombre, apellido, t),
   sent |-> "pdf", payload |-> buffer, error |-> "none", sentOn |-> t]

\* a handler that sends whatever the generator's promise holds
responseAlwaysPdf(p, disposition, nombre, apellido, t) ==
  pdfResponse(disposition, nombre, apellido, p.value, t)

\* what follows await generateCertificado(...): the PDF when the promise
\* resolved, else the catch block's InternalServerError through errorHandler
responseAfterAwait(p, disposition, nombre, apellido, t) ==
  IF p.state = "resolved"
  THEN pdfResponse(disposition, nombre, apellido, p.value, t)
  ELSE errorHandler("InternalServerError")

\* the promise executor of generateCertificado(d) starts
StartExecutor(c, d) ==
  /\ data' = [data EXCEPT ![c] = d]
  /\ pc' = [pc EXCEPT ![c] = "registerFonts"]
  /\ running' = c
  /\ calledOn' = [calledOn EXCEPT ![c] = now]

\* CertificadoController.generateCertificado up to its await
ControllerGenerateCertificado(c) ==
  /\ running = 0
  /\ hpc[c] = "received"
  /\ route[c] = "generate"
  /\ LET sanitizedData == sanitizeData(body[c])
     IN IF validateCertificadoData(sanitizedData, now)
        THEN /\ validation' = [validation EXCEPT ![c] = "valid"]
             /\ StartExecutor(c, [sanitizedData EXCEPT !.fechaEmision = now])
             /\ hpc' = [hpc EXCEPT ![c] = "awaiting"]
             /\ UNCHANGED res
        ELSE /\ validation' = [validation EXCEPT ![c] = "invalid"]
             /\ res' = [res EXCEPT ![c] = errorHandler("ValidationError")]
             /\ hpc' = [hpc EXCEPT ![c] = "done"]
             /\ UNCHANGED <<data, pc, running, calledOn>>
  /\ UNCHANGED <<config, env, now, ticks, captionEnabled, route, body>>
  /\ UNCHANGED docVars
  /\ UNCHANGED streamVars
  /\ UNCHANGED limitVars

\* CertificadoController.generateCertificado after its await
ControllerGenerateCertificadoResume(c) ==
  /\ running = 0
  /\ hpc[c] = "awaiting"
  /\ route[c] = "generate"
  /\ promise[c].state # "pending"
  /\ res' = [res EXCEPT ![c] =
       responseAfterAwait(promise[c], "inline", data[c].nombre, data[c].apellido, now)]
  /\ hpc' = [hpc EXCEPT ![c] = "done"]
  /\ UNCHANGED <<route, body, validation>>
  /\ UNCHANGED generatorVars
  /\ UNCHANGED limitVars

\* mensaje.trim().split(',').map(p => p.trim()).filter(p => p !== '')
partesOf(mensaje) ==
  LET raw == split(trim(mensaje), ",")
  IN SelectSeq([i \in 1..Len(raw) |-> trim(raw[i])], LAMBDA p : p # <<>>)

\* the checks of generateFromTelegram that throw a ValidationError
telegramRejects(b) ==
  \/ b.mensaje = <<>>
  \/ b.mensajeTypeof # "string"
  \/ Len(partesOf(b.mensaje)) < 7

\* the record generateFromTelegram builds, lines 377-403
telegramData(mensaje, today) ==
  LET partes == partesOf(mensaje)
      matchHoras == firstDigits(partes[4])
  IN [dni |-> partes[1],
      nombre |-> partes[3],
      apellido |-> partes[2],
      horasReposo |-> IF matchHoras = <<>> THEN 24 ELSE parseIntDigits(matchHoras),
      codigoDiagnostico |-> partes[7],
      textoEntrada |->
        trim(partes[4] \o Lit(<<" ">>) \o partes[5] \o Lit(<<" ">>) \o partes[6]
               \o Lit(<<" ">>) \o partes[7]),
      fechaEmision |-> today]

\* CertificadoController.generateFromTelegram up to its await
GenerateFromTelegram(c) ==
  /\ running = 0
  /\ hpc[c] = "received"
  /\ route[c] = "telegram"
  /\ IF telegramRejects(body[c])
     THEN /\ res' = [res EXCEPT ![c] = errorHandler("ValidationError")]
          /\ hpc' = [hpc EXCEPT ![c] = "done"]
          /\ UNCHANGED <<data, pc, running, calledOn>>
     ELSE /\ StartExecutor(c, telegramData(body[c].mensaje, now))
          /\ hpc' = [hpc EXCEPT ![c] = "awaiting"]
          /\ UNCHANGED res
  /\ UNCHANGED <<config, env, now, ticks, captionEnabled, route, body, validation>>
  /\ UNCHANGED docVars
  /\ UNCHANGED streamVars
  /\ UNCHANGED limitVars

\* CertificadoController.generateFromTelegram after its await
GenerateFromTelegramResume(c) ==
  /\ running = 0
  /\ hpc[c] = "awaiting"
  /\ route[c] = "telegram"
  /\ promise[c].state # "pending"
  /\ res' = [res EXCEPT ![c] =
       responseAfterAwait(promise[c], "attachment", data[c].nombre, data[c].apellido, now)]
  /\ hpc' = [hpc EXCEPT ![c] = "done"]
  /\ UNCHANGED <<route, body, validation>>
  /\ UNCHANGED generatorVars
  /\ UNCHANGED limitVars

\* A day passes before a request is handled.  The controller reads the
\* clock when it handles a request and when it answers it; days that pass
\* once every request is being rendered are not explored.
TickHttp ==
  /\ running = 0
  /\ ticks < MaxTicks
  /\ \E c \in Calls : hpc[c] = "received"
  /\ now' = NextDay(now)
  /\ ticks' = ticks + 1
  /\ UNCHANGED <<config, env, running, pc, data, calledOn>>
  /\ UNCHANGED docVars
  /\ UNCHANGED streamVars
  /\ UNCHANGED outerVars

\* two requests, each posted to /generate or /telegram
InitHttp ==
  /\ config = defaultConfig
  /\ captionEnabled = FALSE
  /\ InitDocs
  /\ InitNoLimiter
  /\ env \in HttpEnvironments
  /\ pc = [c \in Calls |-> "unused"]
  /\ data = [c \in Calls |-> NoData]
  /\ \E r1 \in Requests, r2 \in SecondRequests :
       /\ route = [c \in Calls |-> IF c = 1 THEN r1.route ELSE r2.route]
       /\ body = [c \in Calls |-> IF c = 1 THEN r1.body ELSE r2.body]
  /\ hpc = [c \in Calls |-> "received"]
  /\ validation = [c \in Calls |-> "none"]
  /\ res = [c \in Calls |-> NoResponse]

NextHttp ==
  \/ TickHttp
  \/ \E c \in Calls : ControllerGenerateCertificado(c)
  \/ \E c \in Calls : ControllerGenerateCertificadoResume(c)
  \/ \E c \in Calls : GenerateFromTelegram(c)
  \/ \E c \in Calls : GenerateFromTelegramResume(c)
  \/ \E c \in Calls : RegisterFonts(c)
  \/ \E c \in Calls : DrawBackgroundImage(c)
  \/ \E c \in Calls : DrawHeader(c)
  \/ \E c \in Calls : DrawPatientInfo(c)
  \/ \E c \in Calls : DrawMedicalInfo(c)
  \/ \E c \in Calls : DrawDigitalSignature(c)
  \/ \E c \in Calls : DrawFooter(c)
  \/ \E c \in Calls : DrawWatermark(c)
  \/ \E c \in Calls : DocEnd(c)
  \/ \E c \in Calls : OnData(c)
  \/ \E c \in Calls : OnEnd(c)
  \/ \E c \in Calls : OnError(c)

SpecHttp == InitHttp /\ [][NextHttp]_vars

\* ------------------------------------------------------------- rate limiter
\* a middleware that never deletes an entry
keepRequests(map, t) == map

\* the requests map after the loop that deletes old entries
cleanRequests(map, t) ==
  [k \in Clients |->
     IF map[k].present /\ map[k].resetTime < t - windowMs THEN NoEntry ELSE map[k]]

\* requests.get(clientId) || { count: 0, resetTime: now + windowMs }
clientDataOf(map, k, t) ==
  IF map[k].present THEN map[k]
  ELSE [present |-> TRUE, count |-> 0, resetTime |-> t + windowMs]

\* clientData.count >= maxRequests && clientData.resetTime > now
limitReached(entry, t) == entry.count >= maxRequests /\ entry.resetTime > t

\* the middleware handles one request of client k at time clock
RateLimitMiddleware(k) ==
  /\ Len(admitted[k]) + Len(denied[k]) < MaxHandled
  /\ LET cleaned == cleanRequests(requests, clock)
         clientData == clientDataOf(cleaned, k, clock)
     IN IF limitReached(clientData, clock)
        THEN /\ requests' = cleaned
             /\ denied' = [denied EXCEPT ![k] = Append(@, clock)]
             /\ UNCHANGED admitted
        ELSE /\ requests' = [cleaned EXCEPT ![k] = [clientData EXCEPT !.count = @ + 1]]
             /\ admitted' = [admitted EXCEPT ![k] = Append(@, clock)]
             /\ UNCHANGED denied
  /\ UNCHANGED clock
  /\ UNCHANGED generatorVars
  /\ UNCHANGED httpVars

\* Date.now() advances
ClockTick ==
  /\ clock < MaxClock
  /\ clock' = clock + 1
  /\ UNCHANGED <<requests, admitted, denied>>
  /\ UNCHANGED generatorVars
  /\ UNCHANGED httpVars

InitLimit ==
  /\ InitCommon
  /\ env = [fontOk |-> CaveatSet, eager |-> FALSE, imageOk |-> TRUE]
  /\ pc = [c \in Calls |-> "unused"]
  /\ data = [c \in Calls |-> NoData]

NextLimit ==
  \/ ClockTick
  \/ \E k \in Clients : RateLimitMiddleware(k)

SpecLimit == InitLimit /\ [][NextLimit]_vars

\* ---------------------------------------------- sanitizer and validator
\* the characters the sampled raw strings are made of: a letter, a blank, a
\* tab and a character sanitizeString removes
RawChars == {"a", " ", "\t", "<"}

\* every string of at most MaxRawLen of these characters
RawStrings ==
  UNION {{Lit(cs) : cs \in [1..n -> RawChars]} : n \in 0..MaxRawLen}

baseBody ==
  JsonBody(Lit(<<"J", "o", "r", "g", "e">>), Lit(<<"J", "a", "r", "a">>),
           Lit(<<"3", "3", "8", "2", "4", "9", "6", "3">>),
           Lit(<<"A", "0", "9">>), 24, textoGripal)

\* bodies handed to sanitizeData: any of the raw strings as nombre; hours
\* that are negative, zero, beyond the maximum or not whole
SanitizerBodies ==
  {[baseBody EXCEPT !.nombre = str] : str \in RawStrings}
    \cup {[baseBody EXCEPT !.horasReposo = h, !.horasTenths = t] :
            h \in {-HorasMax - 1, -HorasMax, -48, -24, -1, 0, 1, 24, 48,
                   HorasMax, HorasMax + 1},
            t \in {0, 5}}

baseRecord == [sanitizeData(baseBody) EXCEPT !.fechaEmision = NoDate]

DiagnosticCodes ==
  { Lit(<<"A", "0", "9">>), Lit(<<"N", "3", "0", "0">>),
    Lit(<<"B", "3", "4", "9">>), Lit(<<"A", "0", "9", ".", "1">>),
    Lit(<<"N", "3", "0", "0", ".", "1">>), Lit(<<"Z", "7", "6", ".", "1">>),
    Lit(<<"A", "9">>), Lit(<<"a", "0", "9">>), Lit(<<"A", "0", "9", "0", "0">>),
    Lit(<<"0", "9", "A">>), Lit(<<"A", "0", "9", ".">>), <<>> }

\* records handed to validateCertificadoData: every whole number of hours
\* around 1..720 with the other fields valid, and every sampled code
ValidatorRecords ==
  {[baseRecord EXCEPT !.horasReposo = h] : h \in (-2)..(HorasMax + 2)}
    \cup {[baseRecord EXCEPT !.codigoDiagnostico = k] : k \in DiagnosticCodes}

\* const sanitizedData = CertificadoValidator.sanitizeData(req.body)
SanitizeData(c) ==
  /\ hpc[c] = "received"
  /\ data' = [data EXCEPT ![c] = sanitizeData(body[c])]
  /\ hpc' = [hpc EXCEPT ![c] = "sanitized"]
  /\ UNCHANGED <<config, env, now, ticks, running, pc, calledOn, captionEnabled>>
  /\ UNCHANGED <<route, body, validation, res>>
  /\ UNCHANGED docVars
  /\ UNCHANGED streamVars
  /\ UNCHANGED limitVars

\* const validation = CertificadoValidator.validateCertificadoData(...)
ValidateCertificadoData(c) ==
  /\ hpc[c] = "sanitized"
  /\ validation' = [validation EXCEPT ![c] =
       IF validateCertificadoData(data[c], now) THEN "valid" ELSE "invalid"]
  /\ hpc' = [hpc EXCEPT ![c] = "validated"]
  /\ UNCHANGED <<route, body, res>>
  /\ UNCHANGED generatorVars
  /\ UNCHANGED limitVars

\* one body about to be sanitized and then validated, or one record about
\* to be validated
InitValidate ==
  /\ config = defaultConfig
  /\ captionEnabled = FALSE
  /\ InitDocs
  /\ InitNoLimiter
  /\ env = [fontOk |-> CaveatSet, eager |-> FALSE, imageOk |-> TRUE]
  /\ pc = [c \in Calls |-> "unused"]
  /\ route = [c \in Calls |-> "none"]
  /\ validation = [c \in Calls |-> "none"]
  /\ res = [c \in Calls |-> NoResponse]
  /\ \/ /\ \E b \in SanitizerBodies : body = [c \in Calls |-> IF c = 1 THEN b ELSE NoBody]
        /\ data = [c \in Calls |-> NoData]
        /\ hpc = [c \in Calls |-> IF c = 1 THEN "received" ELSE "none"]
     \/ /\ body = [c \in Calls |-> NoBody]
        /\ \E d \in ValidatorRecords : data = [c \in Calls |-> IF c = 1 THEN d ELSE NoData]
        /\ hpc = [c \in Calls |-> IF c = 1 THEN "sanitized" ELSE "none"]

NextValidate ==
  \/ \E c \in Calls : SanitizeData(c)
  \/ \E c \in Calls : ValidateCertificadoData(c)

SpecValidate == InitValidate /\ [][NextValidate]_vars

\* ------------------------------------------------------------------ helpers
Finished(c) == pc[c] \in {"awaiting", "caught"}

Drawing(c) == pc[c] \notin {"idle", "unused", "registerFonts"}

HasRun(c, str, x, y) ==
  \E i \in 1..Len(ops[c]) :
    /\ ops[c][i].kind = "text"
    /\ ops[c][i].str = str
    /\ ops[c][i].x = P(x)
    /\ ops[c][i].y = P(y)

Clamp0(n) == IF n < 0 THEN 0 ELSE n

PhaseOrder ==
  <<"background", "header", "patient", "medical", "signature", "footer",
    "watermark", "finalize">>

PhaseIndex(ph) == CHOOSE i \in 1..Len(PhaseOrder) : PhaseOrder[i] = ph

IsFooterDate(op) == op.phase = "footer" /\ op.x = P(25) /\ op.y = P(380)

\* the width doc.text wraps at: from x = 25 to the right margin, in 1/100 point
espacioTexto(cfg) == cfg.width - P(25) - P(cfg.margins.right)

textoWide(d, font, cfg) ==
  StrMilli(descripcion(d) \o Str(","), font) * 14 > espacioTexto(cfg) * 10

CallState(c) ==
  <<pc[c], data[c], registered[c], docFont[c], ops[c], trace[c], docEnded[c],
    docOut[c], emittedEnd[c], emittedError[c], chunks[c], promise[c],
    firstSettle[c], calledOn[c]>>

\* ------------------------------------------------------------------- claims

\* C1: a call resolves only at the document's 'end', with the concatenation
\* in emission order of every chunk the document emitted; when drawing threw
\* or 'error' came before 'end' the promise is rejected and carries no buffer.
C1_CompleteOrFailed ==
  \A c \in Calls :
    /\ promise[c].state = "resolved" =>
         /\ emittedEnd[c]
         /\ docEnded[c]
         /\ firstSettle[c] = "end"
         /\ promise[c].value = BufferConcat(docOut[c])
    /\ firstSettle[c] \in {"throw", "error"} =>
         /\ promise[c].state = "rejected"
         /\ promise[c].value = <<>>
    /\ firstSettle[c] = "none" => promise[c].state = "pending"

C1_Witness ==
  \E c \in Calls :
    /\ promise[c].state = "resolved"
    /\ Len(promise[c].value) = 2
    /\ emittedError[c]

\* C2: for every record within the validated ranges the call resolves with a
\* non-empty buffer; no length of nombre, apellido or textoEntrada makes the
\* executor throw or the promise reject.
C2_ValidDataResolves ==
  \A c \in Calls :
    Finished(c) =>
      /\ pc[c] = "awaiting"
      /\ promise[c].state = "rejected" => promise[c].error = "StreamError"
      /\ promise[c].state = "resolved" => Len(promise[c].value) >= 1

\* C3: once the patient phase has run, the name and the DNI were drawn in
\* full and each is followed by a filler run of
\* max(0, floor((available - width) / advance)) dots.
C3_FillerCountClamped ==
  \A c \in Calls :
    (\E i \in 1..Len(trace[c]) : trace[c][i] = "patient") =>
      LET vf == valueFont(registered[c], env, config)
      IN /\ HasRun(c, nombreCompleto(data[c]), 25, 145)
         /\ HasRun(c, Repeat(".", Clamp0(puntosNombreCount(data[c], vf))), 50, 154)
         /\ HasRun(c, dniTexto(data[c]), 25, 175)
         /\ HasRun(c, Repeat(".", Clamp0(puntosDniCount(data[c], vf))), 50, 184)
         /\ pc[c] # "caught"

\* C4: a textoEntrada wider than its field still gives a render that does
\* not throw, and its text run holds the whole text.
C4_WideTextRenders ==
  \A c \in Calls :
    (Finished(c) /\ textoWide(data[c], valueFont(registered[c], env, config), config)) =>
      /\ pc[c] = "awaiting"
      /\ promise[c].state = "rejected" => promise[c].error = "StreamError"
      /\ HasRun(c, descripcion(data[c]) \o Str(","), 25, 236)

\* C5: with no Caveat font available the render does not throw and every
\* text run is drawn in fonts.title or fonts.body.
C5_NoCaveatRenders ==
  \A c \in Calls :
    (Finished(c) /\ env.fontOk = {}) =>
      /\ pc[c] = "awaiting"
      /\ promise[c].state = "rejected" => promise[c].error = "StreamError"
      /\ \A i \in 1..Len(ops[c]) :
           ops[c][i].kind = "text" =>
             ops[c][i].font \in {config.fonts.title, config.fonts.body}

\* C6: after font registration every Caveat font whose file loads is
\* registered and usable, whichever other font failed to register.
C6_FontsRegisteredIndependently ==
  \A c \in Calls :
    Drawing(c) =>
      \A f \in CaveatSet :
        f \in env.fontOk => f \in registered[c] /\ fontUsable(registered[c], env, f)

\* C7: when the signature image does not load the render does not throw and
\* the document holds, instead of the image, the four text lines name, title,
\* specialty and license in that order.
C7_SignatureFallbackRenders ==
  \A c \in Calls :
    (Finished(c) /\ ~env.imageOk) =>
      /\ pc[c] = "awaiting"
      /\ promise[c].state = "rejected" => promise[c].error = "StreamError"
      /\ \A i \in 1..Len(ops[c]) : ops[c][i].kind # "image"
      /\ \E i \in 1..Len(ops[c]) :
           /\ i + 3 <= Len(ops[c])
           /\ ops[c][i].str = Str("Kardasz Ivana Noelia")
           /\ ops[c][i + 1].str = Str("Especialista")
           /\ ops[c][i + 2].str = Str("Medicina General y Familiar")
           /\ ops[c][i + 3].str = Str("M.P. 7532")
           /\ \A k \in i..(i + 3) : ops[c][k].phase = "signature"

C10_RendersIsolated ==
  /\ [](/\ config = defaultConfig
        /\ \A c \in Calls :
             /\ chunks[c] = docOut[c]
             /\ \A i \in 1..Len(chunks[c]) : chunks[c][i] = Chunk(c, i)
             /\ promise[c].state = "resolved" =>
                  /\ emittedEnd[c]
                  /\ promise[c].value = BufferConcat(docOut[c])
                  /\ \A i \in 1..Len(promise[c].value) : promise[c].value[i].doc = c
             /\ promise[c].state = "rejected" =>
                  \/ promise[c].error = "StreamError" /\ emittedError[c]
                  \/ promise[c].error = "RangeError" /\ pc[c] = "caught")
  /\ [][/\ config' = config
        /\ \A c, o \in Calls :
             (c # o /\ CallState(c)' # CallState(c)) => CallState(o)' = CallState(o)]_vars

C10_Witness ==
  /\ pc[1] = "awaiting"
  /\ pc[2] = "awaiting"
  /\ promise[1].state = "rejected"
  /\ Len(chunks[1]) = 1
  /\ ~emittedEnd[1]
  /\ promise[2].state = "resolved"
  /\ Len(promise[2].value) = 2

TwoDigits(n) == DigitText[((n \div 10) % 10) + 1] \o DigitText[(n % 10) + 1]

FourDigits(n) == TwoDigits(n \div 100) \o TwoDigits(n % 100)

\* the date a call prints: data.fechaEmision when present, else the day of the call
IssueDateOf(c) ==
  IF data[c].fechaEmision # NoDate THEN data[c].fechaEmision ELSE calledOn[c]

FooterDateRuns(c) ==
  {i \in 1..Len(ops[c]) : IsFooterDate(ops[c][i])}

\* C12: once the footer has been drawn, its date run is the two-digit day,
\* '/', the two-digit calendar month (1..12), '/', the year, of the issue
\* date; 2024-05-10 is drawn as 10/05/2024.
C12_FooterDateFormat ==
  \A c \in Calls :
    (\E j \in 1..Len(trace[c]) : trace[c][j] = "footer") =>
      /\ Cardinality(FooterDateRuns(c)) = 1
      /\ \A i \in FooterDateRuns(c) :
           LET f == IssueDateOf(c)
           IN /\ ops[c][i].kind = "text"
              /\ ops[c][i].str =
                   Str(TwoDigits(f.d) \o "/" \o TwoDigits(f.m + 1) \o "/" \o FourDigits(f.y))
              /\ f = IssueDate => ops[c][i].str = Str("10/05/2024")

C12_Witness ==
  \E c \in Calls :
    /\ data[c].fechaEmision = IssueDate
    /\ promise[c].state = "resolved"
    /\ \E i \in FooterDateRuns(c) : ops[c][i].str = Str("10/05/2024")

InPatientPhase(c) == \E j \in 1..Len(trace[c]) : trace[c][j] = "patient"

\* doc.widthOfString(s) at the patient size, in 1/1000 point
measuredWidth(s, font) == StrMilli(s, font) * tamanoFuentePaciente

\* C13: for two calls that measured their values in the same font, the call
\* with the narrower name (DNI) computed a filler count at least as large as
\* the other's, and every computed filler count is >= 0.
C13_FillerMonotoneNonNegative ==
  \A a, b \in Calls :
    (InPatientPhase(a) /\ InPatientPhase(b)) =>
      LET vf == valueFont(registered[a], env, config)
      IN /\ measuredWidth(nombreCompleto(data[a]), vf)
              < measuredWidth(nombreCompleto(data[b]), vf) =>
                puntosNombreCount(data[a], vf) >= puntosNombreCount(data[b], vf)
         /\ measuredWidth(dniTexto(data[a]), vf)
              < measuredWidth(dniTexto(data[b]), vf) =>
                puntosDniCount(data[a], vf) >= puntosDniCount(data[b], vf)
         /\ puntosNombreCount(data[a], vf) >= 0
         /\ puntosDniCount(data[a], vf) >= 0

\* C14: whatever override the generator was constructed with, fonts.body is
\* a built-in font, and no render fails because doc.font(fonts.body) threw.
C14_BodyFontBuiltIn ==
  \A c \in Calls :
    Finished(c) =>
      /\ config.fonts.body \in StandardFonts
      /\ promise[c].error # "FontError"

\* the graphics state after a sequence of drawing operations: the stack of
\* saved states, the rotation of the current transform, the opacity
RECURSIVE GStateAfter(_)
GStateAfter(s) ==
  IF s = <<>> THEN [stack |-> <<>>, rot |-> 0, opacity |-> 100]
  ELSE LET g == GStateAfter(SubSeq(s, 1, Len(s) - 1))
           op == s[Len(s)]
       IN CASE op.kind = "save" ->
                 [g EXCEPT !.stack = Append(@, [rot |-> g.rot, opacity |-> g.opacity])]
            [] op.kind = "restore" ->
                 IF g.stack = <<>> THEN [stack |-> <<>>, rot |-> 0, opacity |-> 100]
                 ELSE [stack |-> SubSeq(g.stack, 1, Len(g.stack) - 1),
                       rot |-> g.stack[Len(g.stack)].rot,
                       opacity |-> g.stack[Len(g.stack)].opacity]
            [] op.kind = "rotate" -> [g EXCEPT !.rot = @ + op.x]
            [] op.kind = "opacity" -> [g EXCEPT !.opacity = op.x]
            [] OTHER -> g

WatermarkRuns(c) == {i \in 1..Len(ops[c]) : ops[c][i].phase = "watermark"}

\* C17: once the watermark phase has run, it issued exactly one save, first,
\* and one restore, last, and the depth of the saved-state stack and the
\* current transform after it equal those before it, with the caption drawn
\* (rotated, between the two) or not.
C17_WatermarkRestoresState ==
  \A c \in Calls :
    (\E j \in 1..Len(trace[c]) : trace[c][j] = "watermark") =>
      LET W == WatermarkRuns(c)
          first == CHOOSE i \in W : \A k \in W : i <= k
          last == CHOOSE i \in W : \A k \in W : i >= k
          before == GStateAfter(SubSeq(ops[c], 1, first - 1))
          after == GStateAfter(SubSeq(ops[c], 1, last))
      IN /\ W # {}
         /\ Cardinality({i \in W : ops[c][i].kind = "save"}) = 1
         /\ Cardinality({i \in W : ops[c][i].kind = "restore"}) = 1
         /\ ops[c][first].kind = "save"
         /\ ops[c][last].kind = "restore"
         /\ Len(after.stack) = Len(before.stack)
         /\ after.rot = before.rot
         /\ after.opacity = before.opacity
         /\ captionEnabled <=>
              \E i \in W : /\ ops[c][i].kind = "text"
                            /\ GStateAfter(SubSeq(ops[c], 1, i)).rot = -45

C17_Witness ==
  \E c \in Calls :
    /\ captionEnabled
    /\ docEnded[c]
    /\ \E i \in WatermarkRuns(c) : ops[c][i].kind = "rotate"
    /\ \E i \in WatermarkRuns(c) : ops[c][i].str = Str("Escaneado con CamScanner")

\* C19: a call whose executor has started eventually has a settled promise;
\* a settled promise never changes again; it is resolved only by 'end' and
\* rejected only by a throw of the drawing code or by 'error'.
C19_SettlesOnce ==
  /\ \A c \in Calls : (pc[c] = "registerFonts") ~> (promise[c].state # "pending")
  /\ [][\A c \in Calls :
          promise[c].state # "pending" => promise'[c] = promise[c]]_vars
  /\ [](\A c \in Calls :
          /\ promise[c].state = "resolved" => (firstSettle[c] = "end" /\ emittedEnd[c])
          /\ promise[c].state = "rejected" =>
               \/ firstSettle[c] = "throw" /\ pc[c] = "caught"
               \/ firstSettle[c] = "error" /\ emittedError[c])

C19_Witness ==
  \E c \in Calls :
    /\ firstSettle[c] = "throw"
    /\ promise[c].state = "rejected"
    /\ promise[c].error = "RangeError"
    /\ emittedError[c]
    /\ Len(docOut[c]) = MaxChunks

\* the requests of client k admitted in the j-th window-long period counted
\* from the request that created its current entry
AdmittedInPeriod(k, j) ==
  LET t0 == requests[k].resetTime - windowMs
  IN {i \in 1..Len(admitted[k]) :
        /\ t0 + j * windowMs <= admitted[k][i]
        /\ admitted[k][i] < t0 + (j + 1) * windowMs}

\* C18: for every client with an entry, created at t0, at most maxRequests
\* of its requests were admitted in [t0, t0 + windowMs) and in each
\* following windowMs-long period.
C18_LimitEveryWindow ==
  \A k \in Clients :
    requests[k].present =>
      \A j \in 0..(MaxClock \div windowMs) :
        Cardinality(AdmittedInPeriod(k, j)) <= maxRequests

Invoked(c) == pc[c] # "unused"

SentPdf(c) == res[c].sent = "pdf"

SamePatient(a, b) ==
  /\ Expand(data[a].dni) = Expand(data[b].dni)
  /\ Expand(data[a].nombre) = Expand(data[b].nombre)
  /\ Expand(data[a].apellido) = Expand(data[b].apellido)

\* C15: two requests answered with a PDF that differ in the patient (DNI, or
\* nombre and apellido) or in the day of the response got different file
\* names.
C15_FilenameUnique ==
  \A a, b \in Calls :
    (a # b /\ SentPdf(a) /\ SentPdf(b)
       /\ (~SamePatient(a, b) \/ res[a].sentOn # res[b].sentOn)) =>
      Expand(res[a].filename) # Expand(res[b].filename)

SafeFilenameChars == AsciiAlnum \cup {"_", "-", "."}

\* C16: the file name of every PDF response is made of ASCII letters,
\* digits, '_', '-' and '.' only, on both routes, whatever the name and
\* apellido held.
C16_FilenameSafe ==
  \A c \in Calls :
    SentPdf(c) =>
      LET cs == Expand(res[c].filename)
      IN /\ cs # <<>>
         /\ \A i \in 1..Len(cs) : cs[i] \in SafeFilenameChars
         /\ res[c].disposition \in {"inline", "attachment"}

C16_Witness ==
  \E c \in Calls :
    /\ SentPdf(c)
    /\ route[c] = "telegram"
    /\ \E i \in 1..Len(data[c].apellido) : data[c].apellido[i].ch \in {"\"", "/"}
    /\ Len(Expand(res[c].filename)) > 0

\* C20: a PDF is sent only for a resolved promise, with its buffer; a
\* request that failed validation is answered 400 with the ValidationError;
\* one whose render was rejected is answered 500 with an
\* InternalServerError; an error response carries no PDF header, no PDF body
\* and no file name.
C20_PdfOnlyAfterResolve ==
  \A c \in Calls :
    /\ SentPdf(c) =>
         /\ promise[c].state = "resolved"
         /\ res[c].payload = promise[c].value
         /\ res[c].status = 200
         /\ res[c].contentType = "application/pdf"
    /\ (hpc[c] = "done" /\ ~Invoked(c)) =>
         /\ res[c].status = 400
         /\ res[c].error = "ValidationError"
    /\ (hpc[c] = "done" /\ promise[c].state = "rejected") =>
         /\ res[c].status = 500
         /\ res[c].error = "InternalServerError"
    /\ (hpc[c] = "done" /\ promise[c].state = "resolved") => SentPdf(c)
    /\ res[c].status \in {400, 500} =>
         /\ ~SentPdf(c)
         /\ res[c].contentType # "application/pdf"
         /\ res[c].payload = <<>>
         /\ res[c].filename = <<>>
    /\ hpc[c] # "done" => res[c] = NoResponse

C20_Witness ==
  /\ hpc[1] = "done"
  /\ hpc[2] = "done"
  /\ res[1].status = 500
  /\ promise[1].error = "RangeError"
  /\ res[2].status = 200
  /\ Len(res[2].payload) = MaxChunks

FooterDrawn(c) == \E j \in 1..Len(trace[c]) : trace[c][j] = "footer"

\* C21: for a /generate request whose footer has been drawn, the footer's
\* date run shows the fechaEmision the request carried, and the day the
\* request was handled only when it carried none.
C21_FooterShowsSuppliedDate ==
  \A c \in Calls :
    (route[c] = "generate" /\ FooterDrawn(c)) =>
      /\ FooterDateRuns(c) # {}
      /\ \A i \in FooterDateRuns(c) :
           ops[c][i].str = Str(fechaStr(body[c], calledOn[c]))

\* the request went through sanitizeData and validateCertificadoData
SanitizedAndValidated(c) == hpc[c] = "validated" /\ body[c] # NoBody

\* the record was handed to validateCertificadoData as it is
RecordValidated(c) == hpc[c] = "validated" /\ body[c] = NoBody

\* C22: a body is found valid only if the horasReposo it supplied is a whole
\* number between 1 and 720, and the record found valid holds that number.
C22_SuppliedHoursValidated ==
  \A c \in Calls :
    (SanitizedAndValidated(c) /\ validation[c] = "valid") =>
      /\ body[c].horasReposo \in 1..HorasMax
      /\ body[c].horasTenths = 0
      /\ data[c].horasReposo = body[c].horasReposo

OtherFieldsValid(d) == validateCertificadoData([d EXCEPT !.horasReposo = 24], now)

\* C23: a record whose other fields are valid is found valid exactly when
\* its horasReposo is one of 1..720.
C23_HoursRangeAccepted ==
  \A c \in Calls :
    (RecordValidated(c) /\ OtherFieldsValid(data[c])) =>
      (validation[c] = "valid" <=> data[c].horasReposo \in 1..HorasMax)

CodeFieldAside(d) ==
  validateCertificadoData([d EXCEPT !.codigoDiagnostico = Lit(<<"A", "0", "9">>)], now)

\* one uppercase letter, 2 or 3 digits, and optionally '.' and a digit
AnnouncedCodeFormat(cs) ==
  /\ Len(cs) \in 3..6
  /\ cs[1] \in AsciiUpper
  /\ \/ /\ Len(cs) \in 3..4
        /\ \A i \in 2..Len(cs) : cs[i] \in Digits
     \/ /\ Len(cs) \in 5..6
        /\ \A i \in 2..(Len(cs) - 2) : cs[i] \in Digits
        /\ cs[Len(cs) - 1] = "."
        /\ cs[Len(cs)] \in Digits

\* C24: a record whose other fields are valid and whose code has the
\* announced format is found valid.
C24_SchemaCodesAccepted ==
  \A c \in Calls :
    (RecordValidated(c) /\ CodeFieldAside(data[c])
       /\ AnnouncedCodeFormat(Expand(data[c].codigoDiagnostico))) =>
      validation[c] = "valid"

CleanString(str) ==
  LET cs == Expand(str)
  IN /\ cs # <<>> => (cs[1] \notin Whitespace /\ cs[Len(cs)] \notin Whitespace)
     /\ \A i \in 1..(Len(cs) - 1) : ~(cs[i] \in Whitespace /\ cs[i + 1] \in Whitespace)
     /\ \A i \in 1..Len(cs) : cs[i] \notin Dangerous

\* C30: the nombre, apellido and textoEntrada sanitizeData returned have no
\* whitespace at either end, no two whitespace characters in a row and none
\* of < > " ' &.
C30_SanitizedStringClean ==
  \A c \in Calls :
    (hpc[c] \in {"sanitized", "validated"} /\ body[c] # NoBody) =>
      /\ CleanString(data[c].nombre)
      /\ CleanString(data[c].apellido)
      /\ CleanString(data[c].textoEntrada)

\* the value runs of a render: what is drawn, and where
ValueRunsOf(c) ==
  { [str |-> nombreCompleto(data[c]), x |-> 25, y |-> 145],
    [str |-> dniTexto(data[c]), x |-> 25, y |-> 175],
    [str |-> descripcion(data[c]) \o Str(","), x |-> 25, y |-> 236],
    [str |-> Str(ToString(data[c].horasReposo) \o "hs."), x |-> 25, y |-> 267],
    [str |-> data[c].codigoDiagnostico, x |-> 25, y |-> 296],
    [str |-> Str(fechaStr(data[c], calledOn[c])), x |-> 25, y |-> 380] }

RunsAt(c, x, y) ==
  {i \in 1..Len(ops[c]) :
     ops[c][i].kind = "text" /\ ops[c][i].x = P(x) /\ ops[c][i].y = P(y)}

\* where the labels of the patient and medical lines are drawn
LabelPositions ==
  { <<25, 120>>, <<25, 150>>, <<25, 180>>, <<25, 210>>, <<25, 240>>,
    <<25, 270>>, <<25, 300>> }

DecorativeFontOf(c) ==
  IF "Caveat-Medium" \in registered[c] /\ "Caveat-Medium" \in env.fontOk
  THEN "Caveat-Medium" ELSE config.fonts.body

\* C25: in a finished render the full name, the DNI, the free text, the rest
\* hours, the diagnostic code and the footer date are each drawn exactly
\* once, in Caveat-Medium when that font is available and in fonts.body
\* otherwise, and every label is drawn in fonts.body.
C25_ValueRunsOnceInValueFont ==
  \A c \in Calls :
    Finished(c) =>
      /\ \A v \in ValueRunsOf(c) :
           /\ Cardinality(RunsAt(c, v.x, v.y)) = 1
           /\ \A i \in RunsAt(c, v.x, v.y) :
                /\ ops[c][i].str = v.str
                /\ ops[c][i].font = DecorativeFontOf(c)
      /\ \A p \in LabelPositions :
           /\ Cardinality(RunsAt(c, p[1], p[2])) = 1
           /\ \A i \in RunsAt(c, p[1], p[2]) : ops[c][i].font = config.fonts.body

\* a run of dots (of none, when the count is 0)
IsFiller(op) ==
  /\ op.kind = "text"
  /\ op.str = <<>> \/ (Len(op.str) = 1 /\ op.str[1].ch = ".")

FillerRuns(c, phase) ==
  {i \in 1..Len(ops[c]) : ops[c][i].phase = phase /\ IsFiller(ops[c][i])}

\* the value run at (x, y) is followed at once by a filler run
FillerFollows(c, x, y) ==
  \E i \in RunsAt(c, x, y) : i + 1 <= Len(ops[c]) /\ IsFiller(ops[c][i + 1])

\* C26: in a render that reached doc.end() the full name, the DNI and the
\* free text are each followed by a filler run, these three are the only
\* filler runs of the patient lines, and the rest-hours and diagnostic-code
\* lines have none.
C26_ThreeFillerLines ==
  \A c \in Calls :
    docEnded[c] =>
      /\ FillerFollows(c, 25, 145)
      /\ FillerFollows(c, 25, 175)
      /\ FillerFollows(c, 25, 236)
      /\ Cardinality(FillerRuns(c, "patient")) = 3
      /\ FillerRuns(c, "medical") = {}

\* where doc.image places the signature
ImageAnchor ==
  LET op == signatureOps([fontOk |-> {}, eager |-> FALSE, imageOk |-> TRUE],
                         "Helvetica", 160, 360)[1]
  IN [x |-> op.x, y |-> op.y]

SignatureRuns(c) == {i \in 1..Len(ops[c]) : ops[c][i].phase = "signature"}

\* C27: when the signature image did not load and the signature phase has
\* run, the first of the four fallback lines is drawn at the x and y at
\* which the image is placed, and the other three below it at the same x.
C27_FallbackAtImageAnchor ==
  \A c \in Calls :
    (~env.imageOk /\ SignatureRuns(c) # {}) =>
      LET S == SignatureRuns(c)
          first == CHOOSE i \in S : \A k \in S : i <= k
      IN /\ Cardinality(S) = 4
         /\ ops[c][first].x = ImageAnchor.x
         /\ ops[c][first].y = ImageAnchor.y
         /\ \A i \in S :
              /\ ops[c][i].kind = "text"
              /\ ops[c][i].x = ImageAnchor.x
              /\ ops[c][i].y = ImageAnchor.y + P(10) * (i - first)

\* the entry of client j is not deleted by a request handled now
EntryStays(j) ==
  requests[j].present /\ ~(requests[j].resetTime < clock - windowMs)

\* C28: every request client k sends through the middleware is either
\* admitted (next() is called, nothing is answered, and k's counter is one
\* more than the counter of its entry, or 1 when it had none or an expired
\* one) or answered 429 (next() is not called); a request answered 429
\* leaves the counter and the reset time of every entry still in the map as
\* they were, and so does an admitted one for the other clients.
C28_OneOutcomePerRequest ==
  [][\A k \in Clients :
       (Len(admitted'[k]) + Len(denied'[k]) # Len(admitted[k]) + Len(denied[k])) =>
         \/ /\ admitted'[k] = Append(admitted[k], clock)
            /\ denied' = denied
            /\ requests'[k].present
            /\ requests'[k].count = (IF EntryStays(k) THEN requests[k].count ELSE 0) + 1
            /\ requests'[k].resetTime =
                 (IF EntryStays(k) THEN requests[k].resetTime ELSE clock + windowMs)
            /\ \A j \in Clients \ {k} :
                 /\ admitted'[j] = admitted[j]
                 /\ requests'[j].present => requests'[j] = requests[j]
         \/ /\ denied'[k] = Append(denied[k], clock)
            /\ admitted' = admitted
            /\ \A j \in Clients \ {k} : denied'[j] = denied[j]
            /\ \A j \in Clients : requests'[j].present => requests'[j] = requests[j]
            /\ requests'[k] = requests[k]]_vars

C28_Witness ==
  \E k \in Clients :
    /\ Len(denied[k]) >= 1
    /\ Len(admitted[k]) > maxRequests
    /\ \E j \in Clients \ {k} : ~requests[j].present /\ admitted[j] # <<>>

\* the comma-separated parts of a message that hold more than whitespace
NonEmptyParts(mensaje) ==
  LET cs == Expand(mensaje)
      seps == {0, Len(cs) + 1} \cup {i \in 1..Len(cs) : cs[i] = ","}
  IN {a \in seps :
        \E b \in seps :
          /\ a < b
          /\ \A k \in seps : ~(a < k /\ k < b)
          /\ \E i \in (a + 1)..(b - 1) : cs[i] \notin Whitespace}

Malformed(b) ==
  \/ b.mensajeTypeof # "string"
  \/ Cardinality(NonEmptyParts(b.mensaje)) < 7

\* C29: a /telegram request whose mensaje is missing, is not a string or has
\* fewer than 7 non-empty comma-separated parts never invokes the generator
\* and is never sent a PDF; once handled it is answered 400 with a
\* ValidationError.
C29_MalformedTelegramRejected ==
  \A c \in Calls :
    (route[c] = "telegram" /\ Malformed(body[c])) =>
      /\ ~Invoked(c)
      /\ promise[c] = Pending
      /\ ops[c] = <<>>
      /\ ~SentPdf(c)
      /\ hpc[c] \in {"received", "done"}
      /\ hpc[c] = "done" =>
           /\ res[c].status = 400
           /\ res[c].error = "ValidationError"
           /\ res[c].sent = "json"

C29_Witness ==
  /\ route[1] = "telegram"
  /\ body[1].mensajeTypeof = "string"
  /\ Cardinality(NonEmptyParts(body[1].mensaje)) = 2
  /\ res[1].status = 400
  /\ SentPdf(2)

=============================================================================
